---- MODULE Spec2Model ----
(***************************************************************************)
(* A model of the bulk e-mail queue engine (src/lib/queue.ts), of the      *)
(* HTTP handlers in front of it and of the maintenance operations of the   *)
(* file storage (src/lib/jsonStorage.ts).                                  *)
(*                                                                         *)
(* The engine is a single Node.js process: a request handler, a timer      *)
(* callback or the continuation of an await runs to completion before the  *)
(* next one starts.  One action of the model is one such run.              *)
(***************************************************************************)
EXTENDS Integers, Sequences, FiniteSets, TLC

\* Longest recipient list the model lets the queue grow to.
MaxRecipients == 3
\* Longest array one enqueue request carries.
MaxCallLen == 2

VARIABLES
    recipients,             \* queue.ts:11  let recipients: Recipient[]
    statuses,               \* queue.ts:12  let statuses: StatusMap
    isSendingProcessActive, \* queue.ts:13
    transporter,            \* queue.ts:20  TRUE iff the nodemailer transporter was created
    tasks,                  \* the detached batch tasks that are still alive (queue.ts:139-164)
    lastOp,                 \* the handler or callback that ran last, with its argument and result
    fileData,               \* content of data/email-queue.json (jsonStorage.ts:6-11)
    lockFile,               \* TRUE iff data/email-queue.lock exists
    procs,                  \* per process using the file storage: its call in progress
    sql,                    \* the relational storage: its tables and a status read in progress
    inst,                   \* the file storage instance of one process: whether the data
                            \* file exists and the statuses object of its defaultData
    client                  \* one browser page (pages/index.tsx): its state, timer and requests

vars == <<recipients, statuses, isSendingProcessActive, transporter, tasks,
          lastOp, fileData, lockFile, procs, sql, inst, client>>
engineVars == <<recipients, statuses, isSendingProcessActive, tasks>>

----------------------------------------------------------------------------
\* Types (queue.ts:381-395)

PENDING == "PENDING"
SENDING == "SENDING"
SENT    == "SENT"
FAILED  == "FAILED"
SendStatus == {PENDING, SENDING, SENT, FAILED}

\* An e-mail address is a sequence of characters, so that lower-casing is
\* computed character by character and two spellings of one address differ.
LowerChar(c) ==
    CASE c = "A" -> "a"
      [] c = "B" -> "b"
      [] c = "C" -> "c"
      [] c = "X" -> "x"
      [] OTHER   -> c

\* String.prototype.toLowerCase
ToLowerCase(s) == [i \in DOMAIN s |-> LowerChar(s[i])]

\* A JSON value that is an object whose own "toString" is not callable, as in
\* {"toString": 1}: converting it to a string throws a TypeError.  Every other
\* name or company of the model is a JSON string.
NotAString == "{toString:1}"

\* ToString(v) completes normally.
Stringifiable(v) == v # NotAString

\* The records a request body may hold (the handler of POST /api/add checks
\* only that the body is an array).  The second is another spelling of the
\* first one's address, with a name that is no string and an empty company.
RecAnn  == [name |-> "Ann", email |-> <<"a", "@", "x", ".", "c">>, company |-> "X"]
RecCaps == [name |-> NotAString, email |-> <<"A", "@", "X", ".", "C">>, company |-> ""]
RecBob  == [name |-> "Bob", email |-> <<"b", "@", "x", ".", "c">>, company |-> "Y"]

Candidates == {RecAnn, RecCaps, RecBob}

\* The request bodies of POST /api/add that are arrays.
Requests == UNION { [1..n -> Candidates] : n \in 0..MaxCallLen }

\* statuses[id] in JavaScript: undefined when the key is absent.
StatusOf(st, id) == IF id \in DOMAIN st THEN st[id] ELSE "undefined"

\* st[id] = v in JavaScript: the key is created when absent.
Put(st, id, v) == [k \in (DOMAIN st) \cup {id} |-> IF k = id THEN v ELSE st[k]]

Min(S) == CHOOSE x \in S : \A y \in S : x <= y

Ids(rs) == {rs[i].id : i \in DOMAIN rs}

Range(f) == {f[i] : i \in DOMAIN f}

----------------------------------------------------------------------------
\* addRecipients (queue.ts:114-126)

ExistingEmails(rs) == {ToLowerCase(rs[i].email) : i \in DOMAIN rs}

WithId(r) ==
    [name |-> r.name, email |-> r.email, company |-> r.company,
     id |-> ToLowerCase(r.email)]

\* An addRecipients that does not look at the stored addresses.
UniqueNewRecipientsNoFilter(rs, newRecipients) ==
    [i \in DOMAIN newRecipients |-> WithId(newRecipients[i])]

UniqueNewRecipients(rs, newRecipients) ==
    LET existingEmails == ExistingEmails(rs)
        kept == SelectSeq(newRecipients,
                          LAMBDA r : ToLowerCase(r.email) \notin existingEmails)
    IN  [i \in DOMAIN kept |-> WithId(kept[i])]

\* emailRegex = /^[^\s@]+@[^\s@]+\.[^\s@]+$/ (RecipientForm.tsx:11): one "@",
\* not first, then a "." with at least one character on each side of it, and
\* no white space.
IsSpace(c) == c \in {" "}

EmailRegexTest(s) ==
    /\ \A i \in DOMAIN s : ~IsSpace(s[i])
    /\ \E i \in DOMAIN s :
          /\ s[i] = "@"
          /\ i > 1
          /\ \A k \in DOMAIN s : s[k] = "@" => k = i
          /\ \E j \in DOMAIN s : s[j] = "." /\ j > i + 1 /\ j < Len(s)

\* The test validateRecipients applies to one item (RecipientForm.tsx:27-44);
\* no name or company of the model has white space, so trim() changes nothing.
IsValidRecord(r) ==
    /\ Stringifiable(r.name) /\ r.name # ""
    /\ EmailRegexTest(r.email)
    /\ Stringifiable(r.company) /\ r.company # ""

SetPending(st, rs) ==
    [k \in (DOMAIN st) \cup Ids(rs) |-> IF k \in Ids(rs) THEN PENDING ELSE st[k]]

AddRecipientsCall(newRecipients) ==
    LET uniqueNewRecipients == UniqueNewRecipients(recipients, newRecipients)
    IN  /\ Len(recipients) + Len(uniqueNewRecipients) <= MaxRecipients
        /\ recipients' = recipients \o uniqueNewRecipients
        /\ statuses' = SetPending(statuses, uniqueNewRecipients)
        /\ lastOp' = [op |-> "addRecipients",
                      allValid |-> \A i \in DOMAIN newRecipients :
                                      IsValidRecord(newRecipients[i]),
                      added |-> Len(uniqueNewRecipients),
                      result |-> [success |-> TRUE], http |-> 201]
        /\ UNCHANGED <<isSendingProcessActive, transporter, tasks, fileData, lockFile, procs, sql, inst>>

\* POST /api/add with an array body: the handler calls addRecipients.
AddRecipients(newRecipients) == AddRecipientsCall(newRecipients) /\ UNCHANGED client

----------------------------------------------------------------------------
\* getQueueState (queue.ts:104-112), behind GET /api/queue

QueueState ==
    [recipients |-> recipients, statuses |-> statuses,
     isSending |-> isSendingProcessActive]

GetQueueStateCall ==
    /\ lastOp' = [op |-> "getQueueState", result |-> QueueState, http |-> 200]
    /\ UNCHANGED <<recipients, statuses, isSendingProcessActive, transporter,
                   tasks, fileData, lockFile, procs, sql, inst>>

\* GET /api/queue
GetQueueState == GetQueueStateCall /\ UNCHANGED client

----------------------------------------------------------------------------
\* sendMailLogic (queue.ts:55-101)

\* What can happen inside one call once the transporter exists.
MailerOutcomes == {"delivered", "template_missing", "sendMail_throws"}

\* The value the promise of sendMailLogic settles with.  Without a
\* transporter or a template it returns {success: false} before it reads the
\* record.  template.replace(/{{name}}/g, recipient.name) converts the name to
\* a string inside the try block; when that throws, the catch block builds its
\* log line from recipient.name, throws again, and the promise is rejected.
\* A throw of the company conversion or of transporter.sendMail is caught and
\* returned as {success: false}.
SendMailLogic(hasTransporter, outcome, recipient) ==
    IF ~hasTransporter THEN [success |-> FALSE, settled |-> "resolve"]
    ELSE IF outcome = "template_missing" THEN [success |-> FALSE, settled |-> "resolve"]
    ELSE IF ~Stringifiable(recipient.name) THEN [success |-> FALSE, settled |-> "reject"]
    ELSE IF ~Stringifiable(recipient.company) THEN [success |-> FALSE, settled |-> "resolve"]
    ELSE IF outcome = "sendMail_throws" THEN [success |-> FALSE, settled |-> "resolve"]
    ELSE [success |-> TRUE, settled |-> "resolve"]

----------------------------------------------------------------------------
\* processQueue (queue.ts:128-167)

\* processQueue without its first guard.
LaunchCheckNoActiveGuard(active, rs) ==
    IF Len(rs) = 0 THEN "EmptyQueue" ELSE "Accepted"

\* processQueue without its second guard.
LaunchCheckNoEmptyGuard(active, rs) ==
    IF active THEN "AlreadyRunning" ELSE "Accepted"

\* The two guards at the top of processQueue, in their order.
LaunchCheck(active, rs) ==
    IF active THEN "AlreadyRunning"
    ELSE IF Len(rs) = 0 THEN "EmptyQueue"
    ELSE "Accepted"

\* A processQueue that forgets to raise the flag.
FlagOnAcceptUnset == FALSE

\* isSendingProcessActive = true (queue.ts:136)
FlagOnAccept == TRUE

\* A loop that walks the live recipient list instead of its copy.
RecipientsToSendLive(t) == recipients

\* The list the for-of loop of a task walks: its copy of the recipient list.
RecipientsToSend(t) == t.recipientsToSend

\* A loop that takes the last PENDING recipient first.
NextPendingLast(list, from, st) ==
    LET c == {j \in from..Len(list) : StatusOf(st, list[j].id) = PENDING}
    IN  IF c = {} THEN 0 ELSE CHOOSE x \in c : \A y \in c : x >= y

\* A loop that does not read the status before it sends.
NextPendingNoCheck(list, from, st) ==
    IF from <= Len(list) THEN from ELSE 0

\* The first position at or after `from` whose recipient is PENDING, 0 if none.
NextPending(list, from, st) ==
    LET c == {j \in from..Len(list) : StatusOf(st, list[j].id) = PENDING}
    IN  IF c = {} THEN 0 ELSE Min(c)

\* A loop that calls the Mailer without marking the recipient SENDING.
RunLoopNoSending(t, st) ==
    LET list == RecipientsToSend(t)
        j == NextPending(list, t.idx, st)
    IN  IF j = 0
        THEN [task |-> [t EXCEPT !.pc = "grace", !.idx = Len(list) + 1],
              statuses |-> st]
        ELSE [task |-> [t EXCEPT !.pc = "mailer", !.idx = j,
                                 !.mailed = Append(@, list[j])],
              statuses |-> st]

\* The loop from position t.idx up to its next await (the Mailer call), or to
\* its end, where the cleanup timer is set.
RunLoop(t, st) ==
    LET list == RecipientsToSend(t)
        j == NextPending(list, t.idx, st)
    IN  IF j = 0
        THEN [task |-> [t EXCEPT !.pc = "grace", !.idx = Len(list) + 1],
              statuses |-> st]
        ELSE [task |-> [t EXCEPT !.pc = "mailer", !.idx = j,
                                 !.mailed = Append(@, list[j])],
              statuses |-> Put(st, list[j].id, SENDING)]

\* A loop that records only successes.
ResultStatusSuccessOnly(result) == IF result.success THEN SENT ELSE SENDING

\* statuses[recipient.id] = result.success ? SENT : FAILED
ResultStatus(result) == IF result.success THEN SENT ELSE FAILED

\* processQueue.  An accepted call runs the detached task synchronously up to
\* its first await.
ProcessQueueCall ==
    LET check == LaunchCheck(isSendingProcessActive, recipients)
        t0 == [pc |-> "loop", recipientsToSend |-> recipients, idx |-> 1,
               mailed |-> <<>>,
               pendingAtStart |-> {id \in Ids(recipients) :
                                      StatusOf(statuses, id) = PENDING}]
        run == RunLoop(t0, statuses)
    IN  IF check # "Accepted"
        THEN /\ lastOp' = [op |-> "processQueue", result |-> check, http |-> 409]
             /\ UNCHANGED <<recipients, statuses, isSendingProcessActive,
                            transporter, tasks, fileData, lockFile, procs, sql, inst>>
        ELSE /\ isSendingProcessActive' = FlagOnAccept
             /\ tasks' = Append(tasks, run.task)
             /\ statuses' = run.statuses
             /\ lastOp' = [op |-> "processQueue", result |-> check, http |-> 202]
             /\ UNCHANGED <<recipients, transporter, fileData, lockFile, procs, sql, inst>>

\* POST /api/send from any other page: the handler calls processQueue.
ProcessQueue == ProcessQueueCall /\ UNCHANGED client

\* The promise of sendMailLogic settles and the loop of task k resumes.  A
\* rejection is thrown by the await: nothing in the detached function catches
\* it, so the task ends there, with the flag and the statuses as they are.
MailerReturn(k, outcome) ==
    LET t == tasks[k]
        recipient == RecipientsToSend(t)[t.idx]
        result == SendMailLogic(transporter, outcome, recipient)
        st1 == Put(statuses, recipient.id, ResultStatus(result))
        run == RunLoop([t EXCEPT !.idx = t.idx + 1], st1)
    IN  /\ t.pc = "mailer"
        /\ IF result.settled = "reject"
           THEN /\ tasks' = [tasks EXCEPT ![k].pc = "crashed"]
                /\ UNCHANGED statuses
           ELSE /\ tasks' = [tasks EXCEPT ![k] = run.task]
                /\ statuses' = run.statuses
        /\ lastOp' = [op |-> "mailerReturn", id |-> recipient.id,
                      outcome |-> IF transporter THEN outcome ELSE "no_transporter",
                      result |-> result]
        /\ UNCHANGED <<recipients, isSendingProcessActive, transporter,
                       fileData, lockFile, procs, sql, inst, client>>

\* A cleanup that empties the queue.
KeptByCleanupNone(st, r) == FALSE

\* recipients.filter(r => statuses[r.id] === SendStatus.FAILED)
KeptByCleanup(st, r) == StatusOf(st, r.id) = FAILED

\* A cleanup that does not reset the status of what it keeps.
CleanupStatusNoReset == FAILED

\* The status cleanup gives to a recipient it keeps.
CleanupStatus == PENDING

RemoveAt(s, k) == [i \in 1..(Len(s) - 1) |-> IF i < k THEN s[i] ELSE s[i + 1]]

\* The setTimeout callback of task k (queue.ts:151-163).
CleanupTimer(k) ==
    LET failedRecipients == SelectSeq(recipients, LAMBDA r : KeptByCleanup(statuses, r))
    IN  /\ tasks[k].pc = "grace"
        /\ recipients' = failedRecipients
        /\ statuses' = [id \in Ids(failedRecipients) |-> CleanupStatus]
        /\ isSendingProcessActive' = FALSE
        /\ tasks' = RemoveAt(tasks, k)
        /\ lastOp' = [op |-> "cleanup", task |-> tasks[k],
                      before |-> [recipients |-> recipients, statuses |-> statuses]]
        /\ UNCHANGED <<transporter, fileData, lockFile, procs, sql, inst, client>>

----------------------------------------------------------------------------
\* File storage (jsonStorage.ts:13-253), maintenance operations.  Each runs
\* with the lock file absent: acquireLock creates it at its first attempt and
\* the operation reads, writes and releases without another await.

DefaultData == [recipients |-> <<>>, statuses |-> <<>>, isSendingProcessActive |-> FALSE]

\* cleanupQueue between its read and its write (jsonStorage.ts:199-212)
CleanupData(data) ==
    LET failedRecipients ==
            SelectSeq(data.recipients,
                      LAMBDA r : StatusOf(data.statuses, r.id) = FAILED)
    IN  [recipients |-> failedRecipients,
         statuses |-> [id \in Ids(failedRecipients) |-> PENDING],
         isSendingProcessActive |-> FALSE]

StorageSetSendingActive(isActive) ==
    /\ ~lockFile
    /\ fileData' = [fileData EXCEPT !.isSendingProcessActive = isActive]
    /\ lastOp' = [op |-> "storage.setSendingActive", arg |-> isActive, result |-> TRUE]
    /\ UNCHANGED <<recipients, statuses, isSendingProcessActive, transporter,
                   tasks, lockFile, procs, sql, inst, client>>

StorageCleanupQueue ==
    /\ ~lockFile
    /\ fileData' = CleanupData(fileData)
    /\ lastOp' = [op |-> "storage.cleanupQueue", result |-> TRUE]
    /\ UNCHANGED <<recipients, statuses, isSendingProcessActive, transporter,
                   tasks, lockFile, procs, sql, inst, client>>

\* A clear that also wrote the engine's flag, as a storage shared with the
\* engine would.
StorageClearAllDataShared ==
    /\ ~lockFile
    /\ fileData' = DefaultData
    /\ isSendingProcessActive' = FALSE
    /\ lastOp' = [op |-> "storage.clearAllData", result |-> TRUE]
    /\ UNCHANGED <<recipients, statuses, transporter,
                   tasks, lockFile, procs, sql, inst, client>>

StorageClearAllData ==
    /\ ~lockFile
    /\ fileData' = DefaultData
    /\ lastOp' = [op |-> "storage.clearAllData", result |-> TRUE]
    /\ UNCHANGED <<recipients, statuses, isSendingProcessActive, transporter,
                   tasks, lockFile, procs, sql, inst, client>>

----------------------------------------------------------------------------
\* File storage, call by call and file operation by file operation
\* (jsonStorage.ts:53-229).  Each process of Procs loads the module once
\* and then holds its instance of EmailQueueStorage over the one data directory.  Inside one process a call
\* runs without interruption from the creation of the lock file to its
\* removal, but the file operations of another process can fall between any
\* two of them.

Procs == {"p1", "p2"}

NoCall == [op |-> "none", req |-> <<>>, id |-> <<>>, status |-> PENDING, flag |-> FALSE]

IdleProc == [pc |-> "idle", call |-> NoCall, data |-> DefaultData, success |-> FALSE]

\* The calls the processes make.
StorageRequests == {<<RecAnn>>, <<RecCaps, RecBob>>}
StorageIds == {WithId(RecAnn).id}

StorageCalls ==
    {[NoCall EXCEPT !.op = "addRecipients", !.req = req] : req \in StorageRequests}
    \cup {[NoCall EXCEPT !.op = "updateRecipientStatus", !.id = id, !.status = st] :
             id \in StorageIds, st \in {FAILED}}
    \cup {[NoCall EXCEPT !.op = "setSendingActive", !.flag = b] : b \in {TRUE}}
    \cup {[NoCall EXCEPT !.op = "cleanupQueue"], [NoCall EXCEPT !.op = "clearAllData"]}

\* What a call hands to writeDataSync, from the data it read.
StorageBody(c, data) ==
    CASE c.op = "addRecipients" ->
            LET uniqueNewRecipients == UniqueNewRecipients(data.recipients, c.req)
            IN  [data EXCEPT !.recipients = @ \o uniqueNewRecipients,
                             !.statuses = SetPending(@, uniqueNewRecipients)]
      [] c.op = "updateRecipientStatus" ->
            [data EXCEPT !.statuses = Put(@, c.id, c.status)]
      [] c.op = "setSendingActive" ->
            [data EXCEPT !.isSendingProcessActive = c.flag]
      [] c.op = "cleanupQueue" -> CleanupData(data)
      [] OTHER -> DefaultData

\* A timed-out call that removes the lock file on its way out.
LockAfterTimeoutReleased(lock) == FALSE

\* `if (!lockAcquired) return ...` stands before the try block: releaseLock
\* does not run.
LockAfterTimeout(lock) == lock

\* A status read that needs the lock file to be absent.
ReadMayProceedLockFree(lock) == ~lock

\* getQueueState calls readDataSync at once, whatever the lock file.
ReadMayProceed(lock) == TRUE

storageFrame == <<recipients, statuses, isSendingProcessActive, transporter, tasks, sql,
                  inst, client>>

\* A file operation inside a call, and the return of a call.
StStep == [op |-> "storage.step"]
StReturn(how, success) == [op |-> "storage.return", how |-> how, success |-> success]

\* A process calls a mutator: acquireLock makes its first attempt at once,
\* fs.writeFileSync(lockFile, pid, {flag: 'wx'}), and waits 10 ms if it fails.
StCall(p, c) ==
    /\ procs[p].pc = "idle"
    /\ c.op = "addRecipients" =>
          Len(fileData.recipients) + Len(c.req) <= MaxRecipients
    /\ IF ~lockFile
       THEN /\ lockFile' = TRUE
            /\ procs' = [procs EXCEPT ![p] = [IdleProc EXCEPT !.pc = "locked", !.call = c]]
       ELSE /\ procs' = [procs EXCEPT ![p] = [IdleProc EXCEPT !.pc = "waiting", !.call = c]]
            /\ UNCHANGED lockFile
    /\ lastOp' = StStep
    /\ UNCHANGED <<fileData, storageFrame>>

\* The 10 ms timer fires before the 5000 ms have passed and the attempt
\* succeeds (a failed attempt leaves everything as it is).
StRetry(p) ==
    /\ procs[p].pc = "waiting"
    /\ ~lockFile
    /\ lockFile' = TRUE
    /\ procs' = [procs EXCEPT ![p].pc = "locked"]
    /\ lastOp' = StStep
    /\ UNCHANGED <<fileData, storageFrame>>

\* The timer fires after the 5000 ms: acquireLock returns false and the call
\* returns false, or {success: false, message: 'Could not acquire lock'}.
StTimeout(p) ==
    /\ procs[p].pc = "waiting"
    /\ lockFile' = LockAfterTimeout(lockFile)
    /\ procs' = [procs EXCEPT ![p] = IdleProc]
    /\ lastOp' = StReturn("timeout", FALSE)
    /\ UNCHANGED <<fileData, storageFrame>>

\* readDataSync, in every mutator but clearAllData
StRead(p) ==
    /\ procs[p].pc = "locked"
    /\ procs[p].call.op # "clearAllData"
    /\ procs' = [procs EXCEPT ![p].pc = "read", ![p].data = fileData]
    /\ lastOp' = StStep
    /\ UNCHANGED <<fileData, lockFile, storageFrame>>

\* writeDataSync: fs.writeFileSync replaces the file, or throws and the call
\* returns false.
StWrite(p, ok) ==
    /\ \/ procs[p].pc = "read"
       \/ procs[p].pc = "locked" /\ procs[p].call.op = "clearAllData"
    /\ fileData' = IF ok THEN StorageBody(procs[p].call, procs[p].data) ELSE fileData
    /\ procs' = [procs EXCEPT ![p].pc = "written", ![p].success = ok]
    /\ lastOp' = StStep
    /\ UNCHANGED <<lockFile, storageFrame>>

\* A call that releases the lock only after a successful write.
LockAfterReleaseOnSuccess(lock, success) == IF success THEN FALSE ELSE lock

\* releaseLock in the finally block: the lock file is removed if there is
\* one, whatever writeDataSync returned.
LockAfterRelease(lock, success) == FALSE

\* finally { this.releaseLock() }
StRelease(p) ==
    /\ procs[p].pc = "written"
    /\ lockFile' = LockAfterRelease(lockFile, procs[p].success)
    /\ procs' = [procs EXCEPT ![p] = IdleProc]
    /\ lastOp' = StReturn("done", procs[p].success)
    /\ UNCHANGED <<fileData, storageFrame>>

\* A process loads the module: the constructor of the singleton runs
\* initializeStorage, which writes the default data if there is no data file
\* and removes the lock file if there is one.
InitializeStorage(p) ==
    /\ procs[p].pc = "unloaded"
    /\ lockFile' = FALSE
    /\ procs' = [procs EXCEPT ![p] = IdleProc]
    /\ lastOp' = [op |-> "storage.initializeStorage"]
    /\ UNCHANGED <<fileData, storageFrame>>

\* getQueueState of the file storage (jsonStorage.ts:115-122): one read of
\* the data file, by any process.
StGetQueueState ==
    /\ \E p \in Procs : procs[p].pc # "unloaded"
    /\ ReadMayProceed(lockFile)
    /\ lastOp' = [op |-> "storage.getQueueState", lockHeld |-> lockFile]
    /\ UNCHANGED <<fileData, lockFile, procs, storageFrame>>

StorageNext ==
    \/ \E p \in Procs : \E c \in StorageCalls : StCall(p, c)
    \/ \E p \in Procs : StRetry(p)
    \/ \E p \in Procs : StTimeout(p)
    \/ \E p \in Procs : StRead(p)
    \/ \E p \in Procs : \E ok \in BOOLEAN : StWrite(p, ok)
    \/ \E p \in Procs : StRelease(p)
    \/ \E p \in Procs : InitializeStorage(p)
    \/ StGetQueueState
    \/ GetQueueState

----------------------------------------------------------------------------
\* Relational storage (jsonStorage.ts:260-533).  A statement outside a
\* transaction and the commit of a transaction are single steps of the
\* database; getQueueState issues two statements.

MaxCommitsDuringRead == 1

SqlRequests == {<<RecAnn>>, <<RecBob>>, <<RecAnn, RecBob>>}
SqlIds == {WithId(RecAnn).id, WithId(RecBob).id}

NoRead == [pc |-> "idle", first |-> "none", rows |-> <<>>, active |-> FALSE, seen |-> {}]

\* What getQueueState builds from the rows and the flag it was given.
SqlQueueState(rows, active) ==
    [recipients |-> [i \in DOMAIN rows |->
                        [id |-> rows[i].id, email |-> rows[i].email,
                         name |-> rows[i].name, company |-> rows[i].company]],
     statuses |-> [id \in Ids(rows) |->
                      (CHOOSE r \in Range(rows) : r.id = id).status],
     isSending |-> active]

\* The tables change: a status read in progress has one more state of the
\* storage within its duration.
SqlCommit(rows, active) ==
    /\ sql.read.pc # "idle" => Cardinality(sql.read.seen) <= MaxCommitsDuringRead
    /\ sql' = [rows |-> rows, active |-> active,
               read |-> IF sql.read.pc = "idle" THEN sql.read
                        ELSE [sql.read EXCEPT !.seen = @ \cup {SqlQueueState(rows, active)}]]

sqlFrame == <<recipients, statuses, isSendingProcessActive, transporter, tasks,
              fileData, lockFile, procs, inst, client>>

SqlAddRecipients(newRecipients) ==
    LET wanted == {ToLowerCase(newRecipients[i].email) : i \in DOMAIN newRecipients}
        existingEmailSet == {ToLowerCase(sql.rows[i].email) :
                                i \in {j \in DOMAIN sql.rows : sql.rows[j].email \in wanted}}
        kept == SelectSeq(newRecipients,
                          LAMBDA r : ToLowerCase(r.email) \notin existingEmailSet)
        uniqueNewRecipients ==
            [i \in DOMAIN kept |->
                [id |-> ToLowerCase(kept[i].email), email |-> kept[i].email,
                 name |-> kept[i].name, company |-> kept[i].company,
                 status |-> PENDING]]
    IN  /\ IF Len(uniqueNewRecipients) = 0
           THEN UNCHANGED sql
           ELSE SqlCommit(sql.rows \o uniqueNewRecipients, sql.active)
        /\ lastOp' = [op |-> "sql.addRecipients", result |-> [success |-> TRUE]]
        /\ UNCHANGED sqlFrame

SqlUpdateRecipientStatus(recipientId, status) ==
    LET updatedCount == Cardinality({i \in DOMAIN sql.rows : sql.rows[i].id = recipientId})
    IN  /\ IF updatedCount > 0
           THEN SqlCommit([i \in DOMAIN sql.rows |->
                              IF sql.rows[i].id = recipientId
                              THEN [sql.rows[i] EXCEPT !.status = status]
                              ELSE sql.rows[i]],
                          sql.active)
           ELSE UNCHANGED sql
        /\ lastOp' = [op |-> "sql.updateRecipientStatus", result |-> updatedCount > 0]
        /\ UNCHANGED sqlFrame

SqlSetSendingActive(isActive) ==
    /\ SqlCommit(sql.rows, isActive)
    /\ lastOp' = [op |-> "sql.setSendingActive", result |-> TRUE]
    /\ UNCHANGED sqlFrame

\* FAILED rows become PENDING, SENT rows are destroyed, the flag is cleared.
SqlCleanupQueue ==
    LET reset == [i \in DOMAIN sql.rows |->
                     IF sql.rows[i].status = FAILED
                     THEN [sql.rows[i] EXCEPT !.status = PENDING]
                     ELSE sql.rows[i]]
    IN  /\ SqlCommit(SelectSeq(reset, LAMBDA r : r.status # SENT), FALSE)
        /\ lastOp' = [op |-> "sql.cleanupQueue", result |-> TRUE]
        /\ UNCHANGED sqlFrame

SqlClearAllData ==
    /\ SqlCommit(<<>>, FALSE)
    /\ lastOp' = [op |-> "sql.clearAllData", result |-> TRUE]
    /\ UNCHANGED sqlFrame

\* retryFailedEmails: one UPDATE that sets every FAILED row to PENDING.
SqlRetryFailedEmails ==
    LET updatedCount == Cardinality({i \in DOMAIN sql.rows : sql.rows[i].status = FAILED})
    IN  /\ IF updatedCount > 0
           THEN SqlCommit([i \in DOMAIN sql.rows |->
                              IF sql.rows[i].status = FAILED
                              THEN [sql.rows[i] EXCEPT !.status = PENDING]
                              ELSE sql.rows[i]],
                          sql.active)
           ELSE UNCHANGED sql
        /\ lastOp' = [op |-> "sql.retryFailedEmails",
                      result |-> [success |-> updatedCount > 0,
                                  updatedCount |-> updatedCount]]
        /\ UNCHANGED sqlFrame

\* getQueueState starts Recipient.findAll and QueueState.findByPk(1) together
\* with Promise.all: the database runs one of them first.
SqlReadFirst(first) ==
    /\ sql.read.pc = "idle"
    /\ sql' = [sql EXCEPT !.read = [pc |-> "one", first |-> first,
                                    rows |-> sql.rows, active |-> sql.active,
                                    seen |-> {SqlQueueState(sql.rows, sql.active)}]]
    /\ lastOp' = [op |-> "sql.statement"]
    /\ UNCHANGED sqlFrame

\* The database runs the other statement and getQueueState returns.
SqlReadSecond ==
    LET rd == sql.read
        rows == IF rd.first = "recipients" THEN rd.rows ELSE sql.rows
        active == IF rd.first = "queueState" THEN rd.active ELSE sql.active
    IN  /\ rd.pc = "one"
        /\ sql' = [sql EXCEPT !.read = NoRead]
        /\ lastOp' = [op |-> "sql.getQueueState",
                      result |-> SqlQueueState(rows, active), seen |-> rd.seen]
        /\ UNCHANGED sqlFrame

SqlNext ==
    \/ \E newRecipients \in SqlRequests : SqlAddRecipients(newRecipients)
    \/ \E id \in SqlIds : \E st \in {SENDING, SENT, FAILED} : SqlUpdateRecipientStatus(id, st)
    \/ \E isActive \in BOOLEAN : SqlSetSendingActive(isActive)
    \/ SqlCleanupQueue
    \/ SqlClearAllData
    \/ SqlRetryFailedEmails
    \/ \E first \in {"recipients", "queueState"} : SqlReadFirst(first)
    \/ SqlReadSecond

----------------------------------------------------------------------------
\* One instance of EmailQueueStorage and its data file: whether the file is
\* missing, holds a valid document or holds something readDataSync rejects;
\* the statuses object of this.defaultData; whether the constructor has run.
\* Here the file exists and the constructor has run.
InstInit == [file |-> "valid", defaultStatuses |-> <<>>, loaded |-> TRUE]

\* A request of getQueueState of the page that the server has not read yet.
PollSent == [stage |-> "sent", isSending |-> FALSE, hasRecipients |-> FALSE]

\* The page after it was mounted (index.tsx:12-20, 64-83): the state is empty,
\* the polling effect has set no timer and the effect of the initial load has
\* called getQueueState.  isSendingRef and shown are the values of isSending
\* and of recipients.length > 0 at the last render; poller is "null" when
\* poller.current is null, "live" when it holds a running interval and
\* "cleared" when it holds an interval that clearInterval has stopped.
ClientInit ==
    [isSending |-> FALSE, hasRecipients |-> FALSE, isSendingRef |-> FALSE,
     shown |-> FALSE, poller |-> "null", send |-> "none", polls |-> <<PollSent>>,
     failures |-> 0]

Init ==
    /\ recipients = <<>>
    /\ statuses = <<>>
    /\ isSendingProcessActive = FALSE
    /\ transporter \in BOOLEAN
    /\ tasks = <<>>
    /\ lastOp = [op |-> "init"]
    /\ fileData = DefaultData
    /\ lockFile = FALSE
    /\ procs = [p \in Procs |-> [IdleProc EXCEPT !.pc = "unloaded"]]
    /\ sql = [rows |-> <<>>, active |-> FALSE, read |-> NoRead]
    /\ inst = InstInit
    /\ client = ClientInit

Next ==
    \/ \E newRecipients \in Requests : AddRecipients(newRecipients)
    \/ GetQueueState
    \/ ProcessQueue
    \/ \E k \in DOMAIN tasks : \E outcome \in MailerOutcomes : MailerReturn(k, outcome)
    \/ \E k \in DOMAIN tasks : CleanupTimer(k)
    \/ \E isActive \in BOOLEAN : StorageSetSendingActive(isActive)
    \/ StorageCleanupQueue
    \/ StorageClearAllData

Spec == Init /\ [][Next]_vars

\* Every pending promise of sendMailLogic settles and every timer set with
\* setTimeout fires.
FairSpec ==
    /\ Spec
    /\ WF_vars(\E k \in DOMAIN tasks : \E outcome \in MailerOutcomes : MailerReturn(k, outcome))
    /\ WF_vars(\E k \in DOMAIN tasks : CleanupTimer(k))

\* The storages do not use the transporter.
InitStorage == Init /\ transporter

\* The file storage used by two processes.
SpecStorage == InitStorage /\ [][StorageNext]_vars

\* The relational storage.
SpecSql == InitStorage /\ [][SqlNext]_vars

\* The states a storage can hold when cleanupQueue is called at the end of a
\* batch: recipients without a repeated identity, each with any status, and
\* the flag raised.
PreCleanupLists ==
    {l \in UNION {[1..n -> {RecAnn, RecBob}] : n \in 0..MaxCallLen} :
        \A i, j \in DOMAIN l : i # j => l[i] # l[j]}

\* Both storages hold the same recipients, statuses and flag.
InitCleanup ==
    /\ recipients = <<>>
    /\ statuses = <<>>
    /\ isSendingProcessActive = FALSE
    /\ transporter = TRUE
    /\ tasks = <<>>
    /\ lastOp = [op |-> "init"]
    /\ lockFile = FALSE
    /\ procs = [p \in Procs |-> IdleProc]
    /\ inst = InstInit
    /\ client = ClientInit
    /\ \E l \in PreCleanupLists :
          \E st \in [{ToLowerCase(l[i].email) : i \in DOMAIN l} -> SendStatus] :
             /\ fileData = [recipients |-> [i \in DOMAIN l |-> WithId(l[i])],
                            statuses |-> st,
                            isSendingProcessActive |-> TRUE]
             /\ sql = [rows |-> [i \in DOMAIN l |->
                                   [id |-> ToLowerCase(l[i].email), email |-> l[i].email,
                                    name |-> l[i].name, company |-> l[i].company,
                                    status |-> st[ToLowerCase(l[i].email)]]],
                       active |-> TRUE, read |-> NoRead]

\* Each storage runs its cleanupQueue once, in either order.
CleanupNext ==
    \/ fileData.isSendingProcessActive /\ StorageCleanupQueue
    \/ sql.active /\ SqlCleanupQueue

SpecCleanup == InitCleanup /\ [][CleanupNext]_vars

----------------------------------------------------------------------------
\* File storage of one process when the data file can be missing or unreadable
\* (jsonStorage.ts:19-229).  With one process and no lock file left behind,
\* a call runs from acquireLock to releaseLock without interruption, so each
\* call is one step.  fileData is kept at DefaultData while the file does not
\* hold a valid document.

FileStates == {"missing", "invalid", "valid"}

\* How a mutator call ends: the write succeeds; fs.writeFileSync throws before
\* the file is opened; it throws after the file was truncated; the lock file
\* cannot be created and acquireLock times out.
CallOutcomes == {"ok", "untouched", "torn", "nolock"}

\* readDataSync: the document of the file, or { ...this.defaultData }, a new
\* object whose statuses field is the statuses object of defaultData itself.
FallbackData ==
    [recipients |-> <<>>, statuses |-> inst.defaultStatuses,
     isSendingProcessActive |-> FALSE]

ReadFellBack == inst.file # "valid"

ReadDataSync == IF ReadFellBack THEN FallbackData ELSE fileData

\* What a call hands to writeDataSync: clearAllData hands this.defaultData.
FbBody(c) ==
    IF c.op = "clearAllData" THEN FallbackData ELSE StorageBody(c, ReadDataSync)

\* The statuses object of defaultData after the call: addRecipients and
\* updateRecipientStatus assign into data.statuses, which is that object when
\* the read fell back; cleanupQueue assigns a new object to data.statuses.
DefaultStatusesAfter(c) ==
    IF ReadFellBack /\ c.op \in {"addRecipients", "updateRecipientStatus"}
    THEN FbBody(c).statuses
    ELSE inst.defaultStatuses

\* writeDataSync
FileAfterWrite(outcome) ==
    CASE outcome = "ok" -> "valid"
      [] outcome = "torn" -> "invalid"
      [] OTHER -> inst.file

fallbackFrame ==
    <<recipients, statuses, isSendingProcessActive, transporter, tasks,
      lockFile, procs, sql, client>>

\* constructor and initializeStorage: the file is written only if it is missing.
FbLoad(outcome) ==
    /\ ~inst.loaded
    /\ outcome # "nolock"
    /\ IF inst.file = "missing"
       THEN /\ inst' = [inst EXCEPT !.loaded = TRUE, !.file = FileAfterWrite(outcome)]
            /\ fileData' = DefaultData
       ELSE /\ inst' = [inst EXCEPT !.loaded = TRUE]
            /\ UNCHANGED fileData
    /\ lastOp' = [op |-> "fallback.load"]
    /\ UNCHANGED fallbackFrame

\* addRecipients, updateRecipientStatus, setSendingActive, cleanupQueue,
\* clearAllData
FbCall(c, outcome) ==
    /\ inst.loaded
    /\ c.op = "addRecipients" =>
          Len(ReadDataSync.recipients) + Len(c.req) <= MaxRecipients
    /\ IF outcome = "nolock"
       THEN UNCHANGED <<inst, fileData>>
       ELSE /\ inst' = [inst EXCEPT !.file = FileAfterWrite(outcome),
                                    !.defaultStatuses = DefaultStatusesAfter(c)]
            /\ fileData' = CASE outcome = "ok" -> FbBody(c)
                             [] outcome = "torn" -> DefaultData
                             [] OTHER -> fileData
    /\ lastOp' = [op |-> "fallback.call", call |-> c, outcome |-> outcome,
                  success |-> outcome = "ok"]
    /\ UNCHANGED fallbackFrame

\* getQueueState
FbGetQueueState ==
    /\ inst.loaded
    /\ lastOp' = [op |-> "fallback.getQueueState", result |-> ReadDataSync]
    /\ UNCHANGED <<inst, fileData, fallbackFrame>>

FallbackNext ==
    \/ \E outcome \in CallOutcomes : FbLoad(outcome)
    \/ \E c \in StorageCalls : \E outcome \in CallOutcomes : FbCall(c, outcome)
    \/ FbGetQueueState

InitFallback ==
    /\ recipients = <<>>
    /\ statuses = <<>>
    /\ isSendingProcessActive = FALSE
    /\ transporter = TRUE
    /\ tasks = <<>>
    /\ lastOp = [op |-> "init"]
    /\ fileData = DefaultData
    /\ lockFile = FALSE
    /\ procs = [p \in Procs |-> IdleProc]
    /\ sql = [rows |-> <<>>, active |-> FALSE, read |-> NoRead]
    /\ client = ClientInit
    /\ \E f \in FileStates :
          inst = [file |-> f, defaultStatuses |-> <<>>, loaded |-> FALSE]

SpecFallback == InitFallback /\ [][FallbackNext]_vars

----------------------------------------------------------------------------
\* The page (index.tsx) in one browser, with the engine behind the handlers.
\* A state setter takes effect at the next render; the polling effect runs
\* after a render in which isSending changed.

\* Requests of getQueueState the page can have in flight at once.
MaxPollsInFlight == 2

\* Poll requests that fail during one behaviour.
MaxPollFailures == 1

ClientRequests == {<<RecAnn>>}

clientFrame == <<fileData, lockFile, procs, sql, inst>>

engineFrame == <<recipients, statuses, isSendingProcessActive, transporter, tasks>>

WithPoll(c) == [c EXCEPT !.polls = Append(@, PollSent)]

\* setInterval(getQueueState, 1000) fires.
ClientTick ==
    /\ client.poller = "live"
    /\ Len(client.polls) < MaxPollsInFlight
    /\ client' = WithPoll(client)
    /\ lastOp' = [op |-> "client.tick"]
    /\ UNCHANGED <<engineFrame, clientFrame>>

\* handleAddRecipients: POST /api/add, then getQueueState.
ClientAddRecipients(newRecipients) ==
    /\ Len(client.polls) < MaxPollsInFlight
    /\ AddRecipientsCall(newRecipients)
    /\ client' = WithPoll(client)

\* GET /api/queue for request i of the page.
ServerPoll(i) ==
    /\ client.polls[i].stage = "sent"
    /\ GetQueueStateCall
    /\ client' = [client EXCEPT !.polls[i] =
                     [stage |-> "answered", isSending |-> QueueState.isSending,
                      hasRecipients |-> QueueState.recipients # <<>>]]

\* getQueueState after its awaits: the response is read, or fetch or the
\* status check throws and the catch block runs.
ClientReceivePoll(i, ok) ==
    LET poll == client.polls[i]
        rest == RemoveAt(client.polls, i)
    IN  /\ IF ok
           THEN /\ poll.stage = "answered"
                /\ client' = [client EXCEPT
                      !.polls = rest,
                      !.isSending = poll.isSending,
                      !.hasRecipients = poll.hasRecipients,
                      !.poller = IF client.isSendingRef /\ ~poll.isSending
                                 THEN "null" ELSE @]
           ELSE /\ client.failures < MaxPollFailures
                /\ client' = [client EXCEPT
                      !.polls = rest,
                      !.failures = @ + 1,
                      !.poller = IF @ = "null" THEN "null" ELSE "cleared"]
        /\ lastOp' = [op |-> "client.receivePoll", ok |-> ok]
        /\ UNCHANGED <<engineFrame, clientFrame>>

\* handleSendMails up to its first await.
ClientSend ==
    /\ ~client.isSendingRef
    /\ client.shown
    /\ client.send = "none"
    /\ client' = [client EXCEPT !.send = "sent"]
    /\ lastOp' = [op |-> "client.send"]
    /\ UNCHANGED <<engineFrame, clientFrame>>

\* POST /api/send of the page.
ServerSend ==
    /\ client.send = "sent"
    /\ ProcessQueueCall
    /\ client' = [client EXCEPT !.send =
                     IF LaunchCheck(isSendingProcessActive, recipients) = "Accepted"
                     THEN "202" ELSE "409"]

\* handleSendMails after its awaits.
ClientSendResponse ==
    /\ client.send \in {"202", "409"}
    /\ client' = [client EXCEPT !.send = "none",
                                !.isSending = IF client.send = "202" THEN TRUE ELSE @]
    /\ lastOp' = [op |-> "client.sendResponse", http |-> client.send]
    /\ UNCHANGED <<engineFrame, clientFrame>>

\* The polling effect (index.tsx:64-78): the cleanup of its last run, then
\* its body.
PollingEffect(poller, isSending) ==
    LET cleaned == IF poller = "live" THEN "cleared" ELSE poller
    IN  IF isSending
        THEN IF cleaned = "null" THEN "live" ELSE cleaned
        ELSE "null"

\* A render after a state change, and the effects whose dependencies changed.
ClientRender ==
    /\ client.isSendingRef # client.isSending \/ client.shown # client.hasRecipients
    /\ client' = [client EXCEPT
          !.isSendingRef = client.isSending,
          !.shown = client.hasRecipients,
          !.poller = IF client.isSendingRef # client.isSending
                     THEN PollingEffect(@, client.isSending) ELSE @]
    /\ lastOp' = [op |-> "client.render"]
    /\ UNCHANGED <<engineFrame, clientFrame>>

ClientNext ==
    \/ ClientTick
    \/ \E newRecipients \in ClientRequests : ClientAddRecipients(newRecipients)
    \/ \E i \in DOMAIN client.polls : ServerPoll(i)
    \/ \E i \in DOMAIN client.polls : \E ok \in BOOLEAN : ClientReceivePoll(i, ok)
    \/ ClientSend
    \/ ServerSend
    \/ ClientSendResponse
    \/ ClientRender
    \/ \E k \in DOMAIN tasks : \E outcome \in MailerOutcomes : MailerReturn(k, outcome)
    \/ \E k \in DOMAIN tasks : CleanupTimer(k)

SpecClient == InitStorage /\ [][ClientNext]_vars

\* Timers fire, the server answers, a response that arrived is read unless it
\* fails, React renders, the Mailer returns.  What the user does is not forced.
FairSpecClient ==
    /\ SpecClient
    /\ WF_vars(ClientTick)
    /\ WF_vars(\E i \in DOMAIN client.polls : ServerPoll(i))
    /\ WF_vars(\E i \in DOMAIN client.polls : ClientReceivePoll(i, TRUE))
    /\ WF_vars(ServerSend)
    /\ WF_vars(ClientSendResponse)
    /\ WF_vars(ClientRender)
    /\ WF_vars(\E k \in DOMAIN tasks : \E outcome \in MailerOutcomes : MailerReturn(k, outcome))
    /\ WF_vars(\E k \in DOMAIN tasks : CleanupTimer(k))

----------------------------------------------------------------------------
\* Helpers of the properties

LoopRunning(t) == t.pc = "mailer"
Alive(t) == t.pc \in {"mailer", "grace"}
IsLaunchStep == lastOp'.op = "processQueue"

----------------------------------------------------------------------------
\* C1 - Single-flight invariant: in every reachable state, whatever enqueue,
\* launch, status-read, storage-maintenance and batch steps led to it, at most
\* one batch task (send loop or pending cleanup) is alive.
C1_SingleFlight == Len(tasks) <= 1

\* A batch is in its grace period and the storage flag was just cleared by a
\* maintenance call: still one batch.
C1_Witness ==
    /\ Len(tasks) = 1
    /\ tasks[1].pc = "grace"
    /\ lastOp.op = "storage.setSendingActive"
    /\ lastOp.arg = FALSE

\* C2 - While a batch task is alive (send loop and grace period) every
\* processQueue call is answered AlreadyRunning, and a call on an idle,
\* non-empty queue is accepted; so of two calls in a row on an idle, non-empty
\* queue the first is accepted and the second gets AlreadyRunning.
C2_RejectedWhileRunning ==
    [][ IsLaunchStep =>
          /\ (Len(tasks) > 0 => lastOp'.result = "AlreadyRunning" /\ lastOp'.http = 409)
          /\ (Len(tasks) = 0 /\ Len(recipients) > 0 =>
                 lastOp'.result = "Accepted" /\ lastOp'.http = 202) ]_vars

\* A launch was refused during the grace period of the running batch.
C2_Witness ==
    /\ lastOp.op = "processQueue"
    /\ lastOp.result = "AlreadyRunning"
    /\ Len(tasks) = 1
    /\ tasks[1].pc = "grace"

\* C3 - When the send loop of a batch has finished, every recipient that was
\* PENDING in its snapshot is SENT or FAILED; and whenever isSending is false
\* no recipient is SENDING.
C3_Coverage ==
    /\ \A k \in DOMAIN tasks :
          tasks[k].pc = "grace" =>
             \A id \in tasks[k].pendingAtStart :
                StatusOf(statuses, id) \in {SENT, FAILED}
    /\ ~isSendingProcessActive =>
          \A id \in DOMAIN statuses : statuses[id] # SENDING

\* A loop has finished over two PENDING recipients, one SENT and one FAILED.
C3_Witness ==
    /\ Len(tasks) = 1
    /\ tasks[1].pc = "grace"
    /\ \E a, b \in tasks[1].pendingAtStart :
          StatusOf(statuses, a) = SENT /\ StatusOf(statuses, b) = FAILED

\* C4 - In the state right after a batch's cleanup no recipient is SENT,
\* every recipient of the set is PENDING, and isSending is false.
C4_CleanupLaw ==
    lastOp.op = "cleanup" =>
       /\ \A i \in DOMAIN recipients : StatusOf(statuses, recipients[i].id) = PENDING
       /\ \A id \in DOMAIN statuses : statuses[id] # SENT
       /\ ~isSendingProcessActive

\* Cleanup ran on a queue that held a SENT and a FAILED recipient.
C4_Witness ==
    /\ lastOp.op = "cleanup"
    /\ Len(recipients) > 0
    /\ \E i, j \in DOMAIN lastOp.before.recipients :
          /\ StatusOf(lastOp.before.statuses, lastOp.before.recipients[i].id) = SENT
          /\ StatusOf(lastOp.before.statuses, lastOp.before.recipients[j].id) = FAILED

\* C5 - Every recipient that is FAILED when cleanup runs is in the set after
\* cleanup, with the same name, email and company and with status PENDING, and
\* the next launch is accepted and reaches it.
C5_FailedRetained ==
    lastOp.op = "cleanup" =>
       \A i \in DOMAIN lastOp.before.recipients :
          LET r == lastOp.before.recipients[i]
          IN  StatusOf(lastOp.before.statuses, r.id) = FAILED =>
                 /\ \E j \in DOMAIN recipients :
                       /\ recipients[j].name = r.name
                       /\ recipients[j].email = r.email
                       /\ recipients[j].company = r.company
                 /\ StatusOf(statuses, r.id) = PENDING
                 /\ LaunchCheck(isSendingProcessActive, recipients) = "Accepted"

\* Cleanup ran while a recipient was FAILED.
C5_Witness ==
    /\ lastOp.op = "cleanup"
    /\ \E i \in DOMAIN lastOp.before.recipients :
          StatusOf(lastOp.before.statuses, lastOp.before.recipients[i].id) = FAILED

\* C6 - A recipient enqueued while a batch is running (after its snapshot was
\* taken) is in the recipient set with status PENDING after that batch's
\* cleanup.
C6_EnqueuedDuringBatchSurvives ==
    lastOp.op = "cleanup" =>
       \A i \in DOMAIN lastOp.before.recipients :
          i > Len(lastOp.task.recipientsToSend) =>
             /\ lastOp.before.recipients[i] \in Range(recipients)
             /\ StatusOf(statuses, lastOp.before.recipients[i].id) = PENDING

\* C7 - A recipient enqueued after a batch took its snapshot is not passed to
\* the Mailer by that batch and stays PENDING while the batch is alive.
C7_SnapshotExclusion ==
    \A k \in DOMAIN tasks :
       \A i \in DOMAIN recipients :
          i > Len(tasks[k].recipientsToSend) =>
             /\ StatusOf(statuses, recipients[i].id) = PENDING
             /\ recipients[i].id \notin Ids(tasks[k].mailed)

\* A send loop has finished and the queue holds a recipient that came after
\* its snapshot.
C7_Witness ==
    /\ Len(tasks) = 1
    /\ tasks[1].pc = "grace"
    /\ Len(tasks[1].mailed) > 0
    /\ Len(recipients) > Len(tasks[1].recipientsToSend)

\* C8 - The recipient set holds at most one record per lower-cased e-mail
\* address.
C8_OneRecordPerIdentity ==
    \A i, j \in DOMAIN recipients :
       i # j => ToLowerCase(recipients[i].email) # ToLowerCase(recipients[j].email)

\* C9 - processQueue checks 'already running' first and 'queue empty' second,
\* and a rejected call leaves the recipient set, the status map and the flag
\* as they were and starts no task; a launch on an empty idle queue leaves the
\* flag false.
C9_RejectedLaunchChangesNothing ==
    [][ IsLaunchStep =>
          /\ (isSendingProcessActive => lastOp'.result = "AlreadyRunning")
          /\ (~isSendingProcessActive /\ Len(recipients) = 0 =>
                 lastOp'.result = "EmptyQueue" /\ ~isSendingProcessActive')
          /\ (lastOp'.result # "Accepted" =>
                 /\ recipients' = recipients
                 /\ statuses' = statuses
                 /\ isSendingProcessActive' = isSendingProcessActive
                 /\ tasks' = tasks) ]_vars

\* A launch on an empty queue was refused.
C9_Witness ==
    /\ lastOp.op = "processQueue"
    /\ lastOp.result = "EmptyQueue"
    /\ ~isSendingProcessActive
    /\ tasks = <<>>

\* C10 - When the Mailer fails for a recipient, returned or thrown, that
\* recipient becomes FAILED and the batch task goes on: it is at a later
\* snapshot recipient or, with no PENDING snapshot recipient left, waits for
\* its cleanup.  No task ever dies of an exception.
C10_MailerFailureAbsorbed ==
    /\ \A k \in DOMAIN tasks : Alive(tasks[k])
    /\ (lastOp.op = "mailerReturn" /\ ~lastOp.result.success) =>
          /\ lastOp.result.settled = "resolve"
          /\ StatusOf(statuses, lastOp.id) = FAILED
          /\ \E k \in DOMAIN tasks :
                LET t == tasks[k]
                IN  /\ lastOp.id \in Ids(t.mailed)
                    /\ \/ /\ t.pc = "mailer"
                          /\ t.recipientsToSend[t.idx].id # lastOp.id
                       \/ /\ t.pc = "grace"
                          /\ \A id \in Ids(t.recipientsToSend) :
                                StatusOf(statuses, id) # PENDING

\* C11 - Every accepted batch terminates: with every Mailer call settling
\* and every timer firing, a raised flag is eventually cleared; and a cleanup
\* that follows a batch without a failure leaves the recipient list empty.
C11_BatchTerminates ==
    /\ isSendingProcessActive ~> ~isSendingProcessActive
    /\ [](lastOp.op = "cleanup"
            /\ (\A id \in DOMAIN lastOp.before.statuses :
                   lastOp.before.statuses[id] # FAILED)
          => recipients = <<>> /\ ~isSendingProcessActive)

\* C12 - The flag is released on internal failure: in no reachable state is
\* the flag raised without a live batch task that will clear it.
C12_LockReleasedOnFailure ==
    isSendingProcessActive => \E k \in DOMAIN tasks : Alive(tasks[k])

\* C13 - An enqueue request with a record that lacks a non-empty name, a
\* non-empty company or a valid e-mail address is answered with a validation
\* failure and leaves the recipient set and the status map unchanged.
C13_InvalidRequestRejected ==
    [][ (lastOp'.op = "addRecipients" /\ ~lastOp'.allValid) =>
          /\ lastOp'.http = 400
          /\ ~lastOp'.result.success
          /\ recipients' = recipients
          /\ statuses' = statuses ]_vars

\* C14 - Enqueue returns the number of recipients it added.
C14_ReturnsAddedCount ==
    lastOp.op = "addRecipients" =>
       /\ "addedCount" \in DOMAIN lastOp.result
       /\ lastOp.result.addedCount = lastOp.added

\* C15 - Concurrent enqueue is atomic: however the file operations of two
\* enqueue calls interleave, the write of a successful enqueue keeps every
\* recipient the file held just before it (no other call's insertion is
\* lost) and leaves one record per identity.
C15_ConcurrentEnqueueAtomic ==
    [][ \A p \in Procs :
          (/\ procs[p].call.op = "addRecipients"
           /\ procs[p].pc = "read" /\ procs'[p].pc = "written"
           /\ procs'[p].success) =>
             /\ \A r \in Range(fileData.recipients) : r \in Range(fileData'.recipients)
             /\ \A i, j \in DOMAIN fileData'.recipients :
                   i # j => fileData'.recipients[i].id # fileData'.recipients[j].id ]_vars

\* C16 - A storage call that waits for the lock can always give up; when it
\* does, it returns failure, the data file and the lock file are as they
\* were, and the lock file of the holder is still there.
C16_LockTimeoutHarmless ==
    /\ [][ \A p \in Procs :
             (procs[p].pc = "waiting" /\ procs'[p].pc = "idle") =>
                /\ lastOp' = StReturn("timeout", FALSE)
                /\ fileData' = fileData
                /\ lockFile' = lockFile ]_vars
    /\ [](\A p \in Procs : procs[p].pc = "waiting" => ENABLED StTimeout(p))

\* A call has timed out while the other process is between its read and its
\* write, and the lock file is still there.
C16_Witness ==
    /\ lastOp = StReturn("timeout", FALSE)
    /\ lockFile
    /\ \E q \in Procs : procs[q].pc = "read"

\* C17 - Every getQueueState result equals the recipient set, status map and
\* flag that the storage held at one instant between the start and the end of
\* the call.
C17_SnapshotConsistent ==
    lastOp.op = "sql.getQueueState" => lastOp.result \in lastOp.seen

\* C18 - A getQueueState call, of the engine or of the file storage, leaves
\* the recipient set, the status map, the flag, the data file, the lock file
\* and every call in progress as they were, and it can run whenever a process
\* has loaded the storage, also while the lock file exists.
C18_SnapshotReadOnly ==
    /\ [][ lastOp'.op \in {"getQueueState", "storage.getQueueState"} =>
             UNCHANGED <<recipients, statuses, isSendingProcessActive, tasks,
                         fileData, lockFile, procs>> ]_vars
    /\ []((\E p \in Procs : procs[p].pc # "unloaded") => ENABLED StGetQueueState)

\* The file storage was read while another call held the lock, between its
\* read and its write.
C18_Witness ==
    /\ lastOp.op = "storage.getQueueState"
    /\ lastOp.lockHeld
    /\ lockFile
    /\ \E q \in Procs : procs[q].pc = "read"

\* C19 - In every reachable state the keys of the status map are exactly the
\* identities of the recipients, in the engine and in the data file.
C19_PairingInvariant ==
    /\ DOMAIN statuses = Ids(recipients)
    /\ DOMAIN fileData.statuses = Ids(fileData.recipients)

\* C20 - An enqueue leaves every stored recipient's record and status as they
\* were and reports no error, also when it submits a known address again; and
\* no step changes a stored record: a record stays until cleanup removes it.
C20_ResubmitIsNoOp ==
    [][ /\ lastOp'.op = "addRecipients" =>
             /\ \A i \in DOMAIN recipients :
                   i \in DOMAIN recipients' /\ recipients'[i] = recipients[i]
             /\ \A id \in DOMAIN statuses : StatusOf(statuses', id) = statuses[id]
             /\ lastOp'.result.success
             /\ lastOp'.http = 201
        /\ lastOp'.op # "cleanup" =>
             \A i \in DOMAIN recipients :
                i \in DOMAIN recipients' /\ recipients'[i] = recipients[i] ]_vars

\* Ann's address was submitted again in capitals, with another name, after
\* her mail was sent: nothing was added and her record and status stand.
C20_Witness ==
    /\ lastOp.op = "addRecipients"
    /\ ~lastOp.allValid
    /\ lastOp.added = 0
    /\ \E i \in DOMAIN recipients :
          /\ recipients[i].name = "Ann"
          /\ StatusOf(statuses, recipients[i].id) = SENT

\* C21 - When processQueue accepts, it returns having only raised the flag:
\* in the state it returns in, no status has changed and the Mailer has not
\* been called for any recipient of the new batch.
C21_FastAccept ==
    [][ (IsLaunchStep /\ lastOp'.result = "Accepted") =>
          /\ isSendingProcessActive'
          /\ statuses' = statuses
          /\ \A k \in DOMAIN tasks' : tasks'[k].mailed = <<>> ]_vars

\* C22 - Only post-batch cleanup removes recipients: a step after which the
\* engine's list lacks a recipient it held is the cleanup of a batch whose send
\* loop has finished, and a write after which the data file lacks a recipient
\* it held is the write of cleanupQueue.
C22_OnlyCleanupRemoves ==
    [][ /\ (\E r \in Range(recipients) : r \notin Range(recipients')) =>
              /\ lastOp'.op = "cleanup"
              /\ lastOp'.task.pc = "grace"
        /\ (\E r \in Range(fileData.recipients) : r \notin Range(fileData'.recipients)) =>
              \E p \in Procs :
                 /\ procs[p].pc = "read" /\ procs'[p].pc = "written"
                 /\ procs[p].call.op = "cleanupQueue" ]_vars

\* C23 - Started from the same state, the cleanup of the file storage and
\* the cleanup of the relational storage leave the same recipients, the same
\* status map and the same flag.
C23_CleanupsAgree ==
    (~fileData.isSendingProcessActive /\ ~sql.active) =>
       SqlQueueState(sql.rows, sql.active) =
          [recipients |-> fileData.recipients, statuses |-> fileData.statuses,
           isSending |-> fileData.isSendingProcessActive]

\* C24 - A stored recipient's status changes only along the lifecycle: in the
\* engine by the send loop (PENDING to SENDING, SENDING to SENT or FAILED) or
\* by cleanup (FAILED to PENDING); in the relational storage by
\* updateRecipientStatus, the write the send loop makes, or by cleanupQueue
\* (FAILED to PENDING), and by no other operation.
C24_OnlyLifecycleTransitions ==
    [][ /\ \A id \in (DOMAIN statuses) \cap (DOMAIN statuses') :
              statuses'[id] # statuses[id] =>
                 \/ /\ lastOp'.op \in {"processQueue", "mailerReturn"}
                    /\ <<statuses[id], statuses'[id]>> \in
                          {<<PENDING, SENDING>>, <<SENDING, SENT>>, <<SENDING, FAILED>>}
                 \/ /\ lastOp'.op = "cleanup"
                    /\ <<statuses[id], statuses'[id]>> = <<FAILED, PENDING>>
        /\ \A r \in Range(sql.rows) : \A q \in Range(sql'.rows) :
              (q.id = r.id /\ q.status # r.status) =>
                 \/ lastOp'.op = "sql.updateRecipientStatus"
                 \/ /\ lastOp'.op = "sql.cleanupQueue"
                    /\ <<r.status, q.status>> = <<FAILED, PENDING>> ]_vars

\* C25 - Within a batch a recipient is SENDING only when every earlier
\* recipient of the snapshot that was PENDING at the start is SENT or FAILED,
\* and at most one recipient is SENDING.
C25_SnapshotOrder ==
    /\ \A k \in DOMAIN tasks :
          LET t == tasks[k]
          IN  t.pc = "mailer" =>
                 \A i \in 1..(t.idx - 1) :
                    t.recipientsToSend[i].id \in t.pendingAtStart =>
                       StatusOf(statuses, t.recipientsToSend[i].id) \in {SENT, FAILED}
    /\ Cardinality({id \in DOMAIN statuses : statuses[id] = SENDING}) <= 1

\* The Mailer is being called for the second of two recipients that were both
\* PENDING when the batch started.
C25_Witness ==
    /\ Len(tasks) = 1
    /\ tasks[1].pc = "mailer"
    /\ tasks[1].idx = 2
    /\ Cardinality(tasks[1].pendingAtStart) = 2
    /\ StatusOf(statuses, tasks[1].recipientsToSend[2].id) = SENDING

\* C26 - While the Mailer is being called for a recipient a status snapshot
\* shows it SENDING, and once the loop has recorded the result every snapshot
\* shows it SENT or FAILED until cleanup; a snapshot is the state of the
\* moment it is taken.
C26_TransitionsVisible ==
    /\ \A k \in DOMAIN tasks :
          LET t == tasks[k]
          IN  Alive(t) =>
                 \A m \in DOMAIN t.mailed :
                    IF t.pc = "mailer" /\ m = Len(t.mailed)
                    THEN StatusOf(QueueState.statuses, t.mailed[m].id) = SENDING
                    ELSE StatusOf(QueueState.statuses, t.mailed[m].id) \in {SENT, FAILED}
    /\ lastOp.op = "getQueueState" => lastOp.result = QueueState

\* A snapshot was taken while the Mailer is called for the second recipient:
\* it shows the second SENDING and the first SENT or FAILED.
C26_Witness ==
    /\ lastOp.op = "getQueueState"
    /\ Len(tasks) = 1
    /\ tasks[1].pc = "mailer"
    /\ Len(tasks[1].mailed) = 2
    /\ StatusOf(lastOp.result.statuses, tasks[1].mailed[2].id) = SENDING
    /\ StatusOf(lastOp.result.statuses, tasks[1].mailed[1].id) \in {SENT, FAILED}

\* C27 - Every batch gets its cleanup, once, after its send loop has
\* finished; the cleanup is one step that removes recipients and clears the
\* flag together, so the flag is never false while a status is SENT or FAILED
\* and no recipient is removed while the flag stays raised.
C27_CleanupOnceAtomic ==
    /\ [](~isSendingProcessActive =>
             \A id \in DOMAIN statuses : statuses[id] \notin {SENT, FAILED})
    /\ [][ (\E r \in Range(recipients) : r \notin Range(recipients')) =>
              /\ lastOp'.op = "cleanup"
              /\ ~isSendingProcessActive' ]_vars
    /\ [][ lastOp'.op = "cleanup" =>
              /\ lastOp'.task.pc = "grace"
              /\ Len(tasks') = Len(tasks) - 1 ]_vars
    /\ (Len(tasks) > 0) ~> (lastOp.op = "cleanup")

\* C28 - At most one storage call holds the lock at any time, and a call
\* writes from the data the file holds at that moment: between its read and
\* its write no other call has written.
C28_LockMutualExclusion ==
    /\ [](Cardinality({p \in Procs : procs[p].pc \in {"locked", "read", "written"}}) <= 1)
    /\ [][ \A p \in Procs :
             (procs[p].pc = "read" /\ procs'[p].pc = "written") =>
                procs[p].data = fileData ]_vars

C30_NoDoubleSend ==
    \A k \in DOMAIN tasks :
       \A i, j \in DOMAIN tasks[k].mailed :
          i # j => tasks[k].mailed[i].id # tasks[k].mailed[j].id

\* A send loop has finished over a snapshot with two entries of one identity,
\* and the Mailer was called.
C30_Witness ==
    /\ Len(tasks) = 1
    /\ tasks[1].pc = "grace"
    /\ Len(tasks[1].mailed) > 0
    /\ \E i, j \in DOMAIN tasks[1].recipientsToSend :
          i # j /\ tasks[1].recipientsToSend[i].id = tasks[1].recipientsToSend[j].id

\* C31 - The flag is raised in every state in which a batch task is at the
\* Mailer or waits for its cleanup, and a step that clears it is the cleanup
\* of such a task: no storage call, enqueue or launch clears it.
C31_FlagTracksBatch ==
    /\ [](\A k \in DOMAIN tasks : Alive(tasks[k]) => isSendingProcessActive)
    /\ [][ (isSendingProcessActive /\ ~isSendingProcessActive') =>
              /\ lastOp'.op = "cleanup"
              /\ lastOp'.task.pc = "grace" ]_vars

\* The storage was cleared while a batch waits for its cleanup: the flag is
\* still raised.
C31_Witness ==
    /\ lastOp.op = "storage.clearAllData"
    /\ Len(tasks) = 1
    /\ tasks[1].pc = "grace"
    /\ isSendingProcessActive

\* C32 - After a successful clearAllData the data file holds the empty state:
\* no recipient, no status and the flag lowered, whatever calls came before.
C32_ClearResetsToEmpty ==
    [][ (/\ lastOp'.op = "fallback.call"
         /\ lastOp'.call.op = "clearAllData"
         /\ lastOp'.success) =>
           /\ inst'.file = "valid"
           /\ fileData' = DefaultData ]_vars

\* C33 - updateRecipientStatus for an identity that is not in the recipient
\* list reports failure and writes nothing.
C33_UpdateOfAbsentFails ==
    [][ \A p \in Procs :
          (/\ procs[p].call.op = "updateRecipientStatus"
           /\ procs[p].pc = "read" /\ procs'[p].pc = "written"
           /\ procs[p].call.id \notin Ids(procs[p].data.recipients)) =>
             /\ ~procs'[p].success
             /\ fileData' = fileData ]_vars

\* C34 - An addRecipients that reports success = false leaves the stored
\* recipients and statuses, as the storage reads them, as they were.
C34_EnqueueAllOrNothing ==
    [][ (/\ lastOp'.op = "fallback.call"
         /\ lastOp'.call.op = "addRecipients"
         /\ ~lastOp'.success) =>
           /\ ReadDataSync'.recipients = ReadDataSync.recipients
           /\ ReadDataSync'.statuses = ReadDataSync.statuses ]_vars

\* C35 - Whenever the page has rendered with isSending true, its polling
\* timer is running; and once the page holds isSending true while the server's
\* flag is down, the page comes to isSending false with no timer running
\* (or the server's flag is raised again), also after a failed poll.
C35_PollingFollowsBatch ==
    /\ []((client.isSending /\ client.isSendingRef) => client.poller = "live")
    /\ (client.isSending /\ ~isSendingProcessActive) ~>
          ((~client.isSending /\ client.poller # "live") \/ isSendingProcessActive)

====
